---- MODULE Spec2Model ----
(***************************************************************************)
(* Model of the Apache Pulsar source connector (src/source.go).            *)
(*                                                                         *)
(* The per-message Source keeps the received, not yet acknowledged         *)
(* messages in the map `received`, keyed by msg.ID().String() and guarded  *)
(* by the mutex `mx`.  Read and Ack run on concurrent goroutines, so each  *)
(* handler is split at the points where another goroutine can interleave:  *)
(* the blocking consumer.Receive, mx.Lock, mx.Unlock and the broker call   *)
(* consumer.Ack.  Configure, Open and Teardown are lifecycle calls that    *)
(* the pipeline issues one at a time; each is one action.                  *)
(*                                                                         *)
(* Environment: the broker hands every message to this consumer at most    *)
(* once per session (no negative acknowledgment and no ack timeout is      *)
(* configured by Open, and redelivery after a crash starts a new session). *)
(***************************************************************************)
EXTENDS Naturals, Sequences, FiniteSets, TLC

\* ------------------------------------------------------------------ bounds

\* Number of messages the broker holds for the subscription.
MaxMsgs == 2

MsgIds == 1..MaxMsgs

\* Number of Teardown calls the pipeline makes on one Source.
MaxTeardowns == 2

\* Longest subscription name taken through the position round trip.
MaxNameLen == 3

\* Goroutines the pipeline runs Read and Ack on.
Readers == {"r1", "r2"}
Ackers == {"a1", "a2"}

\* A Go string is the sequence of its characters; this is "".
EmptyString == <<>>

\* Subscription names an operator may configure ("" is: not configured).
ConfigNames == {EmptyString, <<"s", "1">>}

\* Subscription names found in resume positions.
PositionNames == {<<"s", "1">>, <<"s", "2">>}

\* Values uuid.NewString() may return.
UUIDs == {<<"u", "u", "i", "d", "-", "1">>}

\* ------------------------------------------------------------- conversions

\* Stands for "no value" (Go nil) of a position.
NoPosition == <<>>

\* Position{SubscriptionName}: the struct.
Position(name) == [SubscriptionName |-> name]

\* Every character is written as is.
EscapeCharPlain(c) == <<c>>

\* json.Marshal of one character of a string: the quote and the backslash
\* get a backslash, "<" is written as \u003c (HTML escaping is on by
\* default), any other character of the model's alphabet is written as is.
EscapeChar(c) ==
    IF c = "\"" THEN <<"\\", "\"">>
    ELSE IF c = "\\" THEN <<"\\", "\\">>
    ELSE IF c = "<" THEN <<"\\", "u", "0", "0", "3", "c">>
    ELSE <<c>>

\* json.Marshal of a string, without the surrounding quotes.
RECURSIVE EscapeString(_)
EscapeString(str) ==
    IF str = <<>> THEN <<>>
    ELSE EscapeChar(Head(str)) \o EscapeString(Tail(str))

\* The bytes json.Marshal writes before and after the value of the one field.
JSONPrefix == <<"{", "\"subscriptionName\"", ":", "\"">>
JSONSuffix == <<"\"", "}">>

\* Position.ToSDKPosition (lines 187-195): json.Marshal of the Position,
\* the bytes {"subscriptionName":"<escaped name>"}.
ToSDKPosition(p) == JSONPrefix \o EscapeString(p.SubscriptionName) \o JSONSuffix

\* json.Unmarshal of the body of a string literal: undoes the escapes; an
\* unescaped quote or an unknown escape is a syntax error.
RECURSIVE UnescapeString(_)
UnescapeString(body) ==
    IF body = <<>> THEN [ok |-> TRUE, str |-> <<>>]
    ELSE IF Head(body) = "\\"
    THEN IF Len(body) >= 2 /\ body[2] \in {"\"", "\\"}
         THEN LET rest == UnescapeString(SubSeq(body, 3, Len(body)))
              IN  [ok |-> rest.ok, str |-> <<body[2]>> \o rest.str]
         ELSE IF Len(body) >= 6 /\ SubSeq(body, 2, 6) = <<"u", "0", "0", "3", "c">>
         THEN LET rest == UnescapeString(SubSeq(body, 7, Len(body)))
              IN  [ok |-> rest.ok, str |-> <<"<">> \o rest.str]
         ELSE [ok |-> FALSE, str |-> <<>>]
    ELSE IF Head(body) = "\""
    THEN [ok |-> FALSE, str |-> <<>>]
    ELSE LET rest == UnescapeString(Tail(body))
         IN  [ok |-> rest.ok, str |-> <<Head(body)>> \o rest.str]

\* The bytes are a JSON object with the one string field.
IsJSONPosition(pos) ==
    /\ Len(pos) >= Len(JSONPrefix) + Len(JSONSuffix)
    /\ SubSeq(pos, 1, Len(JSONPrefix)) = JSONPrefix
    /\ SubSeq(pos, Len(pos) - Len(JSONSuffix) + 1, Len(pos)) = JSONSuffix

\* parsePosition (lines 180-185): json.Unmarshal into a Position.
parsePosition(pos) ==
    LET body == SubSeq(pos, Len(JSONPrefix) + 1, Len(pos) - Len(JSONSuffix))
    IN  IF IsJSONPosition(pos) /\ UnescapeString(body).ok
        THEN [err |-> "nil", p |-> Position(UnescapeString(body).str)]
        ELSE [err |-> "json", p |-> Position(EmptyString)]

\* msg.ID().String(): the map key of a message identifier.
IDString(id) == ToString(id)

\* msg.ID().Serialize(): the protobuf bytes of a message identifier, as the
\* field tag followed by the encoded identifier.
SerializeMessageID(id) == <<"pb:MessageIdData", ToString(id)>>

\* pulsar.DeserializeMessageID: protobuf-decodes the bytes; anything that is
\* not an encoded MessageIdData (a JSON document, for one) is an error.
DeserializeMessageID(pos) ==
    IF /\ Len(pos) = 2
       /\ pos[1] = "pb:MessageIdData"
       /\ \E id \in MsgIds : ToString(id) = pos[2]
    THEN [err |-> "nil", id |-> CHOOSE id \in MsgIds : ToString(id) = pos[2]]
    ELSE [err |-> "proto", id |-> 0]

\* The message the broker holds under identifier id.
Message(id) ==
    [ID |-> id,
     Topic |-> "t1",
     EventTime |-> id,
     Key |-> <<"k", ToString(id)>>,
     Payload |-> <<"hello", ToString(id)>>]

\* ------------------------------------------------------------------- state

VARIABLES
    state,          \* lifecycle of the Source: new, configured, open, failed, closed
    config,         \* s.config (the subscription name is the part Open resolves)
    client,         \* the pulsar.Client made by Open: none, open, closed
    consumer,       \* s.consumer: nil, open, closed
    subscribeCalls, \* the ConsumerOptions of every client.Subscribe call issued
    openErr,        \* what the Open call returned: none, nil, or the error
    closeCalls,     \* number of consumer.Close calls issued
    teardowns,      \* number of Teardown calls made
    received,       \* s.received: map from msg.ID().String() to the message
    mx,             \* s.mx: free, or the goroutine holding it
    rpc,            \* where each Read call is
    rmsg,           \* the msg local of each Read call (0: none)
    apc,            \* where each Ack call is
    acall,          \* the argument and locals of each Ack call in progress
    lastReturn,     \* the latest Read or Ack call to return, and its result
    delivered,      \* identifiers consumer.Receive has handed out
    returned,       \* identifiers whose Read call has returned a record
    removed,        \* identifiers whose entry an Ack call has deleted
    brokerAcks,     \* number of consumer.Ack calls issued per identifier
    ackStarted,     \* positions some Ack call has been made with
    pipelineAcked,  \* identifiers whose record the pipeline has acknowledged
    rt              \* a position taken through ToSDKPosition and parsePosition

sessionVars == <<state, config, client, consumer, subscribeCalls, openErr,
                 closeCalls, teardowns>>
readVars == <<rpc, rmsg, delivered, returned>>
ackVars == <<apc, acall, removed, brokerAcks, ackStarted>>
otherVars == <<pipelineAcked, rt>>
vars == <<sessionVars, received, mx, readVars, ackVars, lastReturn, otherVars>>

NoRead == [kind |-> "none", id |-> 0, err |-> "nil", record |-> <<>>]
NoAck == [pos |-> NoPosition, first |-> FALSE, id |-> 0, found |-> FALSE,
          issued |-> 0, broker |-> "none", res |-> "none"]

\* No position is being converted.
NoRoundTrip == [phase |-> "none", name |-> EmptyString, bytes |-> NoPosition,
                parsed |-> [err |-> "none", p |-> Position(EmptyString)]]

\* What the latest Read call to return has returned, if no Ack call has
\* returned since.
lastRead == IF lastReturn.op = "Read" THEN lastReturn.val ELSE NoRead

\* The latest Ack call to return (argument, locals, result), if no Read call
\* has returned since.
lastAck == IF lastReturn.op = "Ack" THEN lastReturn.val ELSE NoAck

\* NewSource (lines 40-47): an empty map, an unlocked mutex, a zero config.
NewSource ==
    /\ state = "new"
    /\ config = [SubscriptionName |-> EmptyString]
    /\ client = "none"
    /\ consumer = "nil"
    /\ subscribeCalls = <<>>
    /\ openErr = "none"
    /\ closeCalls = 0
    /\ teardowns = 0
    /\ received = [k \in {} |-> Message(1)]
    /\ mx = "free"
    /\ rpc = [r \in Readers |-> "idle"]
    /\ rmsg = [r \in Readers |-> 0]
    /\ lastReturn = [op |-> "none", val |-> NoRead]
    /\ apc = [a \in Ackers |-> "idle"]
    /\ acall = [a \in Ackers |-> NoAck]
    /\ delivered = {}
    /\ returned = {}
    /\ removed = {}
    /\ brokerAcks = [id \in MsgIds |-> 0]
    /\ ackStarted = {}
    /\ pipelineAcked = {}

Init ==
    /\ NewSource
    /\ rt = NoRoundTrip

AllIdle ==
    /\ \A r \in Readers : rpc[r] = "idle"
    /\ \A a \in Ackers : apc[a] = "idle"

\* --------------------------------------------------------------- lifecycle

\* Source.Configure (lines 53-61): ParseConfig fills s.config or fails.
Configure(name, parseOk) ==
    /\ state = "new"
    /\ IF parseOk
       THEN /\ config' = [SubscriptionName |-> name]
            /\ state' = "configured"
       ELSE /\ config' = config
            /\ state' = "failed"
    /\ UNCHANGED <<client, consumer, subscribeCalls, openErr, closeCalls,
                   teardowns, received, mx, readVars, ackVars, lastReturn,
                   otherVars>>

\* Positions the pipeline may hand to Open: none, the position of an earlier
\* run, or bytes that are no JSON position.
OpenPositions ==
    {NoPosition}
      \cup {ToSDKPosition(Position(n)) : n \in PositionNames}
      \cup {SerializeMessageID(1)}

\* The ConsumerOptions Open passes to client.Subscribe (lines 88-92).
ConsumerOptions(cfg) ==
    [Topic |-> "t1", SubscriptionName |-> cfg.SubscriptionName, Type |-> "Exclusive"]

\* The subscription name Open leaves in s.config once the consumer exists
\* (lines 98-115), or the error it returns.
ResolveName(cfg, pos, uuid) ==
    LET parsed == parsePosition(pos)
        named == IF pos = NoPosition THEN cfg.SubscriptionName
                 ELSE parsed.p.SubscriptionName
    IN  IF pos # NoPosition /\ parsed.err # "nil"
        THEN [err |-> "parse", name |-> cfg.SubscriptionName]
        ELSE IF /\ pos # NoPosition
                /\ cfg.SubscriptionName # EmptyString
                /\ cfg.SubscriptionName # parsed.p.SubscriptionName
        THEN [err |-> "mismatch", name |-> cfg.SubscriptionName]
        ELSE [err |-> "nil", name |-> IF named = EmptyString THEN uuid ELSE named]

\* Source.Open (lines 63-118), the whole call: NewClient, Subscribe under
\* the configured name, then the resume position and the generated name.
OpenOutcome(cfg, pos, clientOk, subscribeOk, uuid) ==
    IF ~clientOk
    THEN [err |-> "client", client |-> "none", consumer |-> "nil",
          subscribed |-> <<>>, name |-> cfg.SubscriptionName]
    ELSE IF ~subscribeOk
    THEN [err |-> "subscribe", client |-> "closed", consumer |-> "nil",
          subscribed |-> <<ConsumerOptions(cfg)>>, name |-> cfg.SubscriptionName]
    ELSE LET res == ResolveName(cfg, pos, uuid)
         IN  [err |-> res.err, client |-> "open", consumer |-> "open",
              subscribed |-> <<ConsumerOptions(cfg)>>, name |-> res.name]

Open(pos, clientOk, subscribeOk, uuid) ==
    /\ state = "configured"
    /\ LET out == OpenOutcome(config, pos, clientOk, subscribeOk, uuid)
       IN  /\ client' = out.client
           /\ consumer' = out.consumer
           /\ subscribeCalls' = subscribeCalls \o out.subscribed
           /\ config' = [config EXCEPT !.SubscriptionName = out.name]
           /\ openErr' = out.err
           /\ state' = IF out.err = "nil" THEN "open" ELSE "failed"
    /\ UNCHANGED <<closeCalls, teardowns, received, mx, readVars, ackVars,
                   lastReturn, otherVars>>

\* Source.Teardown (lines 169-174): calls consumer.Close when s.consumer is
\* not nil, and returns nil.  The pipeline may call it in any state of the
\* Source, and again after it ran.
Teardown ==
    /\ teardowns < MaxTeardowns
    /\ AllIdle
    /\ consumer' = IF consumer # "nil" THEN "closed" ELSE consumer
    /\ closeCalls' = IF consumer # "nil" THEN closeCalls + 1 ELSE closeCalls
    /\ teardowns' = teardowns + 1
    /\ state' = "closed"
    /\ UNCHANGED <<config, client, subscribeCalls, openErr, received, mx,
                   readVars, ackVars, lastReturn, otherVars>>

\* -------------------------------------------------------------------- Read

\* Read returns the record without storing the message.
InsertReceivedSkipped(rcv, msg) == rcv

\* Read stores the message in a fresh map, dropping the other entries.
InsertReceivedAlone(rcv, msg) == [k \in {IDString(msg.ID)} |-> msg]

\* s.received[msg.ID().String()] = msg (line 133).
InsertReceived(rcv, msg) ==
    [k \in DOMAIN rcv \cup {IDString(msg.ID)} |->
        IF k = IDString(msg.ID) THEN msg ELSE rcv[k]]

\* A failed Read starts over with an empty map.
ReceivedOnReadErrorCleared(rcv) == [k \in {} |-> Message(1)]

\* s.received after a Read whose Receive failed: the early return of lines
\* 128-130 comes before the map is touched.
ReceivedOnReadError(rcv) == rcv

\* The record Read builds from the message (lines 136-145).
NewRecordCreate(cfg, msg) ==
    [Operation |-> "create",
     Position |-> ToSDKPosition(Position(cfg.SubscriptionName)),
     Metadata |-> [topic |-> msg.Topic, createdAt |-> msg.EventTime],
     Key |-> msg.Key,
     Payload |-> msg.Payload]

\* Read is called (line 125) and blocks in consumer.Receive (line 127).
ReadCall(r) ==
    /\ state = "open"
    /\ rpc[r] = "idle"
    /\ rpc' = [rpc EXCEPT ![r] = "receive"]
    /\ UNCHANGED <<otherVars, sessionVars, received, mx, rmsg, delivered, returned,
                   ackVars, lastReturn>>

\* consumer.Receive returns the next message (line 127).
ReadReceive(r, id) ==
    /\ rpc[r] = "receive"
    /\ id \notin delivered
    /\ delivered' = delivered \cup {id}
    /\ rmsg' = [rmsg EXCEPT ![r] = id]
    /\ rpc' = [rpc EXCEPT ![r] = "lock"]
    /\ UNCHANGED <<otherVars, sessionVars, received, mx, returned, ackVars, lastReturn>>

\* consumer.Receive returns an error, the context's or the broker's, and
\* Read returns it wrapped (lines 128-130).
ReadReceiveError(r, cause) ==
    /\ rpc[r] = "receive"
    /\ received' = ReceivedOnReadError(received)
    /\ lastReturn' = [op |-> "Read", val |->
           [kind |-> "error", id |-> 0, err |-> cause, record |-> <<>>]]
    /\ rpc' = [rpc EXCEPT ![r] = "idle"]
    /\ UNCHANGED <<otherVars, sessionVars, mx, rmsg, delivered, returned, ackVars>>

\* s.mx.Lock() (line 132).
ReadLock(r) ==
    /\ rpc[r] = "lock"
    /\ mx = "free"
    /\ mx' = r
    /\ rpc' = [rpc EXCEPT ![r] = "insert"]
    /\ UNCHANGED <<otherVars, sessionVars, received, rmsg, delivered, returned, ackVars,
                   lastReturn>>

\* Holding the mutex, Read stores the message (line 133), unlocks (line
\* 134), builds the record from its locals and returns it (lines 136-147).
ReadInsert(r) ==
    /\ rpc[r] = "insert"
    /\ received' = InsertReceived(received, Message(rmsg[r]))
    /\ mx' = "free"
    /\ lastReturn' = [op |-> "Read", val |->
           [kind |-> "record", id |-> rmsg[r], err |-> "nil",
            record |-> NewRecordCreate(config, Message(rmsg[r]))]]
    /\ returned' = returned \cup {rmsg[r]}
    /\ rmsg' = [rmsg EXCEPT ![r] = 0]
    /\ rpc' = [rpc EXCEPT ![r] = "idle"]
    /\ UNCHANGED <<otherVars, sessionVars, delivered, ackVars>>

\* --------------------------------------------------------------------- Ack

\* Positions the pipeline may hand to Ack: the position of the records Read
\* returns in this session, or the serialized identifier of a message.
AckPositions ==
    {ToSDKPosition(Position(config.SubscriptionName))}
      \cup {SerializeMessageID(id) : id \in MsgIds}

\* The positions of the records Read has returned so far.
ReadPositions ==
    {NewRecordCreate(config, Message(id)).Position : id \in returned}

\* The ok of the lookup is ignored.
LookupReceivedAny(rcv, id) == TRUE

\* msg, ok := s.received[msgID.String()] (line 160).
LookupReceived(rcv, id) == IDString(id) \in DOMAIN rcv

\* The entry is acknowledged and left in the map.
DeleteReceivedKept(rcv, id) == rcv

\* delete(s.received, msgID.String()) (line 162).
DeleteReceived(rcv, id) ==
    [k \in DOMAIN rcv \ {IDString(id)} |-> rcv[k]]

\* The error of line 166.
NotFoundError == "not found"

\* The call returns with the mutex still locked.
DeferredUnlockKept(holder) == holder

\* The mutex once an Ack call that locked it has returned, by whichever
\* return statement: the deferred s.mx.Unlock() (line 159, bulk line 355).
DeferredUnlock(holder) == "free"

\* Ack is called and deserializes the position (lines 150-156); a position
\* that is no message identifier ends the call with the error.
AckCall(a, pos) ==
    /\ state = "open"
    /\ apc[a] = "idle"
    /\ LET d == DeserializeMessageID(pos)
           call == [pos |-> pos,
                    first |-> pos \in ReadPositions /\ pos \notin ackStarted,
                    id |-> d.id, found |-> FALSE, issued |-> 0,
                    broker |-> "none", res |-> "none"]
       IN  IF d.err = "nil"
           THEN /\ acall' = [acall EXCEPT ![a] = call]
                /\ apc' = [apc EXCEPT ![a] = "lock"]
                /\ lastReturn' = lastReturn
           ELSE /\ lastReturn' = [op |-> "Ack", val |->
                                     [call EXCEPT !.res = "deserialize"]]
                /\ UNCHANGED <<acall, apc>>
    /\ ackStarted' = ackStarted \cup ({pos} \cap ReadPositions)
    /\ UNCHANGED <<otherVars, sessionVars, received, mx, readVars, removed, brokerAcks>>

\* s.mx.Lock() (line 158); the unlock is deferred (line 159).
AckLock(a) ==
    /\ apc[a] = "lock"
    /\ mx = "free"
    /\ mx' = a
    /\ apc' = [apc EXCEPT ![a] = "lookup"]
    /\ UNCHANGED <<otherVars, sessionVars, received, readVars, acall, removed, brokerAcks,
                   ackStarted, lastReturn>>

\* The lookup (line 160), holding the mutex.  A found entry is deleted
\* (line 162) and consumer.Ack is called (line 163), the mutex still held.
AckFound(a) ==
    /\ apc[a] = "lookup"
    /\ LookupReceived(received, acall[a].id)
    /\ received' = DeleteReceived(received, acall[a].id)
    /\ removed' = removed \cup {acall[a].id}
    /\ brokerAcks' = [brokerAcks EXCEPT ![acall[a].id] = @ + 1]
    /\ acall' = [acall EXCEPT ![a].found = TRUE, ![a].issued = @ + 1]
    /\ apc' = [apc EXCEPT ![a] = "acking"]
    /\ UNCHANGED <<otherVars, sessionVars, mx, readVars, ackStarted, lastReturn>>

\* The lookup misses: Ack returns the not-found error (line 166) and the
\* deferred unlock runs (line 159).
AckNotFound(a) ==
    /\ apc[a] = "lookup"
    /\ ~LookupReceived(received, acall[a].id)
    /\ lastReturn' = [op |-> "Ack", val |-> [acall[a] EXCEPT !.res = NotFoundError]]
    /\ acall' = [acall EXCEPT ![a] = NoAck]
    /\ mx' = DeferredUnlock(a)
    /\ apc' = [apc EXCEPT ![a] = "idle"]
    /\ UNCHANGED <<otherVars, sessionVars, received, readVars, removed, brokerAcks,
                   ackStarted>>

\* A consumer.Ack failure puts the entry back.
ReceivedAfterConsumerAckRestored(rcv, id, ok) ==
    IF ok THEN rcv ELSE InsertReceived(rcv, Message(id))

\* s.received once consumer.Ack has returned: line 163 returns the call's
\* result and never touches the map again.
ReceivedAfterConsumerAck(rcv, id, ok) == rcv

\* consumer.Ack returns nil or the broker's error; that is Ack's result
\* (line 163), and the deferred unlock runs (line 159).
AckConsumerAck(a, ok) ==
    /\ apc[a] = "acking"
    /\ received' = ReceivedAfterConsumerAck(received, acall[a].id, ok)
    /\ lastReturn' = [op |-> "Ack", val |->
           [acall[a] EXCEPT !.broker = IF ok THEN "nil" ELSE "error",
                            !.res = IF ok THEN "nil" ELSE "broker"]]
    /\ acall' = [acall EXCEPT ![a] = NoAck]
    /\ mx' = DeferredUnlock(a)
    /\ apc' = [apc EXCEPT ![a] = "idle"]
    /\ UNCHANGED <<otherVars, sessionVars, readVars, removed, brokerAcks, ackStarted>>

\* ----------------------------------------------------------- specification

Next ==
    \/ \E name \in ConfigNames, parseOk \in BOOLEAN : Configure(name, parseOk)
    \/ \E pos \in OpenPositions, clientOk \in BOOLEAN, subscribeOk \in BOOLEAN,
          uuid \in UUIDs : Open(pos, clientOk, subscribeOk, uuid)
    \/ Teardown
    \/ \E r \in Readers : ReadCall(r)
    \/ \E r \in Readers, id \in MsgIds : ReadReceive(r, id)
    \/ \E r \in Readers, cause \in {"context canceled", "receive failed"} :
          ReadReceiveError(r, cause)
    \/ \E r \in Readers : ReadLock(r)
    \/ \E r \in Readers : ReadInsert(r)
    \/ \E a \in Ackers, pos \in AckPositions : AckCall(a, pos)
    \/ \E a \in Ackers : AckLock(a)
    \/ \E a \in Ackers : AckFound(a)
    \/ \E a \in Ackers : AckNotFound(a)
    \/ \E a \in Ackers, ok \in BOOLEAN : AckConsumerAck(a, ok)

Spec == Init /\ [][Next]_vars

\* -------------------------------------------------------- the bulk variant
\* The second Source of src/source.go (lines 197-373): `received` is a slice
\* that Read appends to, and Ack acknowledges every message in it.  Its
\* Teardown and the first half of its Read (Receive, the error return, the
\* Lock) are the code of the per-message Source, and so are the actions.

\* SubscriptionType (lines 230-249).
Exclusive == "exclusive"
Shared == "shared"
Failover == "failover"
KeyShared == "key_shared"

\* Every value is taken as a subscription type.
ParseSubscriptionTypeAny(str) == [type |-> str, ok |-> TRUE]

\* ParseSubscriptionType (lines 251-264).
ParseSubscriptionType(str) ==
    CASE str = Exclusive -> [type |-> Exclusive, ok |-> TRUE]
      [] str = Shared -> [type |-> Shared, ok |-> TRUE]
      [] str = Failover -> [type |-> Failover, ok |-> TRUE]
      [] str = KeyShared -> [type |-> KeyShared, ok |-> TRUE]
      [] OTHER -> [type |-> "", ok |-> FALSE]

\* SubscriptionType.PulsarType (lines 266-279).
PulsarType(type) ==
    CASE type = Exclusive -> "pulsar.Exclusive"
      [] type = Shared -> "pulsar.Shared"
      [] type = Failover -> "pulsar.Failover"
      [] type = KeyShared -> "pulsar.KeyShared"
      [] OTHER -> "pulsar.Exclusive"

\* The cfg maps the pipeline may hand to Configure: the required keys, and
\* the subscriptionType key absent or set to some string.
BulkConfigs ==
    {[subscriptionName |-> <<"s", "1">>]}
      \cup {[subscriptionName |-> <<"s", "1">>, subscriptionType |-> t] :
               t \in {Exclusive, Shared, Failover, KeyShared, "", "Shared", "bogus"}}

\* What sdk.Util.ParseConfig leaves in s.config (line 291): the values of
\* the keys that are present, the zero value for the others.
BulkParseConfig(cfg) ==
    [SubscriptionName |-> cfg.subscriptionName,
     SubscriptionType |-> IF "subscriptionType" \in DOMAIN cfg
                          THEN cfg.subscriptionType ELSE ""]

\* Source.Configure of the bulk variant (lines 289-305), the whole call.
BulkConfigureOutcome(cfg, parseOk) ==
    IF ~parseOk
    THEN [err |-> "invalid config", config |-> [SubscriptionName |-> EmptyString,
                                                SubscriptionType |-> ""]]
    ELSE IF "subscriptionType" \in DOMAIN cfg
    THEN LET parsed == ParseSubscriptionType(cfg.subscriptionType)
         IN  IF ~parsed.ok
             THEN [err |-> "invalid subscriptionType", config |-> BulkParseConfig(cfg)]
             ELSE [err |-> "nil",
                   config |-> [BulkParseConfig(cfg) EXCEPT !.SubscriptionType = parsed.type]]
    ELSE [err |-> "nil", config |-> BulkParseConfig(cfg)]

BulkConfigure(cfg, parseOk) ==
    /\ state = "new"
    /\ LET out == BulkConfigureOutcome(cfg, parseOk)
       IN  /\ config' = out.config
           /\ state' = IF out.err = "nil" THEN "configured" ELSE "failed"
           /\ lastReturn' = [op |-> "Configure", val |-> [cfg |-> cfg, err |-> out.err]]
    /\ UNCHANGED <<client, consumer, subscribeCalls, openErr, closeCalls,
                   teardowns, received, mx, readVars, ackVars, otherVars>>

\* The ConsumerOptions the bulk Open passes to client.Subscribe (lines 315-321).
BulkConsumerOptions(cfg) ==
    [Topic |-> "t1", SubscriptionName |-> cfg.SubscriptionName,
     Type |-> PulsarType(cfg.SubscriptionType)]

\* Source.Open of the bulk variant (lines 307-328), the whole call; the
\* position is not looked at.
BulkOpenOutcome(cfg, clientOk, subscribeOk) ==
    IF ~clientOk
    THEN [err |-> "client", client |-> "none", consumer |-> "nil", subscribed |-> <<>>]
    ELSE IF ~subscribeOk
    THEN [err |-> "subscribe", client |-> "closed", consumer |-> "nil",
          subscribed |-> <<BulkConsumerOptions(cfg)>>]
    ELSE [err |-> "nil", client |-> "open", consumer |-> "open",
          subscribed |-> <<BulkConsumerOptions(cfg)>>]

BulkOpen(clientOk, subscribeOk) ==
    /\ state = "configured"
    /\ LET out == BulkOpenOutcome(config, clientOk, subscribeOk)
       IN  /\ client' = out.client
           /\ consumer' = out.consumer
           /\ subscribeCalls' = subscribeCalls \o out.subscribed
           /\ openErr' = out.err
           /\ state' = IF out.err = "nil" THEN "open" ELSE "failed"
    /\ UNCHANGED <<config, closeCalls, teardowns, received, mx, readVars,
                   ackVars, lastReturn, otherVars>>

\* The record the bulk Read builds (lines 340-350): position, metadata and
\* key are the zero values of their types, only the payload is the message's.
BulkNewRecordCreate(msg) ==
    [Operation |-> "create",
     Position |-> NoPosition,
     Metadata |-> <<>>,
     Key |-> <<>>,
     Payload |-> msg.Payload]

\* Holding the mutex, the bulk Read appends the message (line 337), unlocks
\* (line 338), builds the record and returns it (lines 340-350).
BulkReadAppend(r) ==
    /\ rpc[r] = "insert"
    /\ received' = Append(received, Message(rmsg[r]))
    /\ mx' = "free"
    /\ lastReturn' = [op |-> "Read", val |->
           [kind |-> "record", id |-> rmsg[r], err |-> "nil",
            record |-> BulkNewRecordCreate(Message(rmsg[r]))]]
    /\ returned' = returned \cup {rmsg[r]}
    /\ rmsg' = [rmsg EXCEPT ![r] = 0]
    /\ rpc' = [rpc EXCEPT ![r] = "idle"]
    /\ UNCHANGED <<otherVars, sessionVars, delivered, ackVars>>

\* The loop acknowledges the message the position names and no other.
MessagesToAckOfRecord(rcv, id) == SelectSeq(rcv, LAMBDA m : m.ID = id)

\* The messages the loop of the bulk Ack ranges over (line 358): all of
\* s.received, whatever record the position came with.
MessagesToAck(rcv, id) == rcv

\* The loop stops at the first failed acknowledgment.
NextAckIndexAbort(i, ok, n) == IF ok THEN i + 1 ELSE n + 1

\* The loop of lines 358-363 goes on to the next message, failed or not.
NextAckIndex(i, ok, n) == i + 1

\* The pipeline acknowledges the record of message id, one it was given and
\* has not acknowledged yet: the bulk Ack is called (line 353).
BulkAckCall(a, id) ==
    /\ state = "open"
    /\ apc[a] = "idle"
    /\ id \in returned \ pipelineAcked
    /\ pipelineAcked' = pipelineAcked \cup {id}
    /\ acall' = [acall EXCEPT ![a] =
           [record |-> id, pos |-> BulkNewRecordCreate(Message(id)).Position,
            i |-> 1, attempts |-> <<>>, err |-> <<>>, res |-> "none"]]
    /\ apc' = [apc EXCEPT ![a] = "lock"]
    /\ UNCHANGED <<sessionVars, received, mx, readVars, removed, brokerAcks,
                   ackStarted, lastReturn, rt>>

\* s.mx.Lock() (line 354); the unlock is deferred (line 355).
BulkAckLock(a) ==
    /\ apc[a] = "lock"
    /\ mx = "free"
    /\ mx' = a
    /\ apc' = [apc EXCEPT ![a] = "loop"]
    /\ UNCHANGED <<otherVars, sessionVars, received, readVars, acall, removed,
                   brokerAcks, ackStarted, lastReturn>>

\* One turn of the loop (lines 358-363): consumer.Ack(msg) is called and
\* returns nil or an error, which errors.Join adds to err.
BulkAckOne(a, ok) ==
    /\ apc[a] = "loop"
    /\ LET msgs == MessagesToAck(received, acall[a].record)
           i == acall[a].i
       IN  /\ i <= Len(msgs)
           /\ brokerAcks' = [brokerAcks EXCEPT ![msgs[i].ID] = @ + 1]
           /\ acall' = [acall EXCEPT
                  ![a].attempts = Append(@, [id |-> msgs[i].ID, ok |-> ok]),
                  ![a].err = IF ok THEN @ ELSE Append(@, msgs[i].ID),
                  ![a].i = NextAckIndex(i, ok, Len(msgs))]
    /\ UNCHANGED <<otherVars, sessionVars, received, mx, readVars, apc, removed,
                   ackStarted, lastReturn>>

\* The loop is over: Ack returns err (line 365) and the deferred unlock runs
\* (line 355).
BulkAckReturn(a) ==
    /\ apc[a] = "loop"
    /\ acall[a].i > Len(MessagesToAck(received, acall[a].record))
    /\ lastReturn' = [op |-> "Ack", val |->
           [acall[a] EXCEPT !.res = IF acall[a].err = <<>> THEN "nil" ELSE "joined"]]
    /\ acall' = [acall EXCEPT ![a] = NoAck]
    /\ mx' = DeferredUnlock(a)
    /\ apc' = [apc EXCEPT ![a] = "idle"]
    /\ UNCHANGED <<otherVars, sessionVars, received, readVars, removed,
                   brokerAcks, ackStarted>>

NextBulk ==
    \/ \E cfg \in BulkConfigs, parseOk \in BOOLEAN : BulkConfigure(cfg, parseOk)
    \/ \E clientOk \in BOOLEAN, subscribeOk \in BOOLEAN : BulkOpen(clientOk, subscribeOk)
    \/ Teardown
    \/ \E r \in Readers : ReadCall(r)
    \/ \E r \in Readers, id \in MsgIds : ReadReceive(r, id)
    \/ \E r \in Readers, cause \in {"context canceled", "receive failed"} :
          ReadReceiveError(r, cause)
    \/ \E r \in Readers : ReadLock(r)
    \/ \E r \in Readers : BulkReadAppend(r)
    \/ \E a \in Ackers, id \in MsgIds : BulkAckCall(a, id)
    \/ \E a \in Ackers : BulkAckLock(a)
    \/ \E a \in Ackers, ok \in BOOLEAN : BulkAckOne(a, ok)
    \/ \E a \in Ackers : BulkAckReturn(a)

SpecBulk == Init /\ [][NextBulk]_vars

\* ------------------------------------------------------------ fair running
\* The goroutines of the calls in progress are scheduled fairly: a call
\* that can take its next step takes it (WF), consumer.Ack returns, and a
\* call waiting in s.mx.Lock() gets the mutex if it is free again and again
\* (SF: sync.Mutex hands the lock to a waiter that has been starved).
\* Nothing obliges the pipeline to make a call, the broker to deliver a
\* message or a Receive to return.
Fairness ==
    /\ \A r \in Readers : SF_vars(ReadLock(r)) /\ WF_vars(ReadInsert(r))
    /\ \A a \in Ackers :
          /\ SF_vars(AckLock(a))
          /\ WF_vars(AckFound(a))
          /\ WF_vars(AckNotFound(a))
          /\ WF_vars(\E ok \in BOOLEAN : AckConsumerAck(a, ok))

LiveSpec == Spec /\ Fairness

BulkFairness ==
    /\ \A r \in Readers : SF_vars(ReadLock(r)) /\ WF_vars(BulkReadAppend(r))
    /\ \A a \in Ackers :
          /\ SF_vars(BulkAckLock(a))
          /\ WF_vars(\E ok \in BOOLEAN : BulkAckOne(a, ok))
          /\ WF_vars(BulkAckReturn(a))

LiveSpecBulk == SpecBulk /\ BulkFairness

\* ------------------------------------------------- the position round trip

\* Characters of subscription names: a letter, the dash of a UUID, and the
\* characters json.Marshal escapes.
NameChars == {"a", "-", "\"", "\\", "<"}

\* The subscription names of up to MaxNameLen characters, "" among them.
RoundTripNames == UNION {[1..n -> NameChars] : n \in 0..MaxNameLen}

InitRoundTrip ==
    /\ NewSource
    /\ \E n \in RoundTripNames : rt = [NoRoundTrip EXCEPT !.phase = "name", !.name = n]

\* Position{n}.ToSDKPosition() (lines 187-195).
RoundTripEncode ==
    /\ rt.phase = "name"
    /\ rt' = [rt EXCEPT !.phase = "encoded",
                        !.bytes = ToSDKPosition(Position(rt.name))]
    /\ UNCHANGED <<sessionVars, received, mx, readVars, ackVars, lastReturn,
                   pipelineAcked>>

\* parsePosition of those bytes (lines 180-185).
RoundTripDecode ==
    /\ rt.phase = "encoded"
    /\ rt' = [rt EXCEPT !.phase = "decoded", !.parsed = parsePosition(rt.bytes)]
    /\ UNCHANGED <<sessionVars, received, mx, readVars, ackVars, lastReturn,
                   pipelineAcked>>

NextRoundTrip ==
    \/ RoundTripEncode
    \/ RoundTripDecode

SpecRoundTrip == InitRoundTrip /\ [][NextRoundTrip]_vars

\* -------------------------------------------------------------- properties

\* Identifiers with an entry in the pending set.
Pending == {id \in MsgIds : ToString(id) \in DOMAIN received}

\* The state of a message in the tracker's state machine.
MsgState(id) ==
    IF id \in Pending THEN "Pending"
    ELSE IF id \in removed THEN "Acknowledged"
    ELSE "Unseen"

\* An Ack call has returned.
AckReturned == lastAck.res # "none"

\* C1: for every position P that a successful Read returned, the first call
\* Ack(P) returns no error, forwards exactly one acknowledgment to the
\* consumer and removes the message's entry from the pending set.
C1_FirstAckOfReadPositionSucceeds ==
    (AckReturned /\ lastAck.first) =>
        /\ lastAck.res = "nil"
        /\ lastAck.issued = 1
        /\ lastAck.found
        /\ lastAck.id \in removed

\* C2: a message cannot be acknowledged twice.  Once an Ack has removed the
\* entry of identifier K, every later Ack resolving to K returns the
\* not-found error and issues no consumer.Ack call; the consumer receives at
\* most one acknowledgment per message, and a message only moves from Unseen
\* to Pending and from Pending to Acknowledged.
C2_NoDoubleAck ==
    /\ [](\A id \in MsgIds : brokerAcks[id] <= 1)
    /\ [][\A a \in Ackers :
            (apc[a] = "lookup" /\ apc'[a] # "lookup" /\ acall[a].id \in removed) =>
                /\ lastAck'.res = "not found"
                /\ lastAck'.issued = 0
                /\ brokerAcks' = brokerAcks]_vars
    /\ [][\A id \in MsgIds :
            MsgState(id)' # MsgState(id) =>
                <<MsgState(id), MsgState(id)'>> \in
                    {<<"Unseen", "Pending">>, <<"Pending", "Acknowledged">>}]_vars

\* C2 witness: an Ack resolving to an identifier whose entry an earlier Ack
\* removed has returned the not-found error.
C2_Witness ==
    /\ lastAck.res = "not found"
    /\ lastAck.id \in removed
    /\ brokerAcks[lastAck.id] = 1

\* C3: the identifier of every message a Read call has returned is a key of
\* the pending set from the moment Read returns until an Ack resolving to
\* that identifier is processed.
C3_ReturnedStaysPending ==
    \A id \in returned \ removed :
        /\ ToString(id) \in DOMAIN received
        /\ received[ToString(id)].ID = id

\* C3 witness: two Reads have returned; one message has been acknowledged
\* and the other is still pending.
C3_Witness ==
    /\ returned \ removed # {}
    /\ removed # {}
    /\ AllIdle

\* C4: an Ack whose position resolves to an identifier that is no key of the
\* pending set returns the not-found error, issues no consumer.Ack call and
\* leaves the pending set as it was.
C4_AckOfAbsentKey ==
    [][\A a \in Ackers :
        (apc[a] = "lookup" /\ apc'[a] # "lookup" /\ acall[a].id \notin Pending) =>
            /\ lastAck'.res = "not found"
            /\ lastAck'.pos = acall[a].pos
            /\ lastAck'.issued = 0
            /\ brokerAcks' = brokerAcks
            /\ received' = received]_vars

\* C4 witness: an Ack for a message that was never delivered has returned
\* not-found while another message was pending.
C4_Witness ==
    /\ lastAck.res = "not found"
    /\ lastAck.id \notin delivered
    /\ Pending # {}

\* C5: when Open returns the subscription-name mismatch error, no Subscribe
\* call has been issued to the broker during that Open call.
C5_MismatchBeforeSubscribe ==
    openErr = "mismatch" => subscribeCalls = <<>>

\* C6: Open subscribes under the resolved subscription name, so after a
\* successful Open the SubscriptionName passed to Subscribe equals the name
\* embedded in the position of every record Read returns.
C6_SubscribedUnderPositionName ==
    /\ state = "open" =>
          /\ Len(subscribeCalls) = 1
          /\ subscribeCalls[1].SubscriptionName = config.SubscriptionName
    /\ lastRead.kind = "record" =>
          /\ parsePosition(lastRead.record.Position).err = "nil"
          /\ parsePosition(lastRead.record.Position).p.SubscriptionName =
                subscribeCalls[Len(subscribeCalls)].SubscriptionName

\* C7: while a consumer.Ack call is in flight the mutex is free.
C7_MutexFreeDuringBrokerAck ==
    \A a \in Ackers : apc[a] = "acking" => mx = "free"

\* C8: under every interleaving of Read and Ack calls no pending entry is
\* lost and none is removed twice: whenever no call is inside its critical
\* section, the pending set holds exactly the messages pulled and not yet
\* acknowledged, and its size is the pulled count minus the acked count.
C8_PendingIsPulledMinusAcked ==
    mx = "free" =>
        /\ removed \subseteq returned
        /\ Pending = returned \ removed
        /\ Cardinality(DOMAIN received) + Cardinality(removed) = Cardinality(returned)
        /\ \A id \in MsgIds : brokerAcks[id] = IF id \in removed THEN 1 ELSE 0

\* C8 witness: every message has been pulled, one has been acknowledged,
\* another is pending, and Read and Ack calls are still racing for the mutex.
C8_Witness ==
    /\ mx = "free"
    /\ Cardinality(returned) >= 2
    /\ removed # {}
    /\ Pending # {}
    /\ \E a \in Ackers : apc[a] = "lock"

\* C9: when Ack finds the entry and the broker rejects the acknowledgment,
\* Ack returns the broker's error and the entry stays removed: no removed
\* entry is in the pending set again.
C9_BrokerRejectKeepsEntryRemoved ==
    lastAck.broker = "error" =>
        /\ lastAck.res = "broker"
        /\ lastAck.found
        /\ lastAck.issued = 1
        /\ lastAck.id \in removed
        /\ ToString(lastAck.id) \notin DOMAIN received
        /\ removed \cap Pending = {}

\* C9 witness: the broker has rejected the acknowledgment of a message while
\* another message was pending.
C9_Witness ==
    /\ lastAck.broker = "error"
    /\ lastAck.res = "broker"
    /\ Pending # {}

\* C10: a Read call that ends because its context was cancelled or the
\* broker receive failed returns the error and leaves the pending set and
\* the consumer handle unchanged.
C10_FailedReadChangesNothing ==
    [][\A r \in Readers :
        (rpc[r] = "receive" /\ rpc'[r] = "idle") =>
            /\ lastRead'.kind = "error"
            /\ received' = received
            /\ consumer' = consumer
            /\ Pending' = Pending]_vars

\* C10 witness: a Read has failed on a cancelled context while a message of
\* an earlier Read was pending.
C10_Witness ==
    /\ lastRead.kind = "error"
    /\ lastRead.err = "context canceled"
    /\ Pending # {}
    /\ Pending = returned \ removed

\* C11: a Read whose context was cancelled while it was blocked in
\* consumer.Receive returns a cancellation signal and not an error, unlike a
\* Read whose broker receive failed.
C11_CancelledReadIsNoError ==
    (lastRead.kind # "none" /\ lastRead.err = "context canceled") =>
        lastRead.kind # "error"

\* C19: whenever Open has returned an error, no broker resource that Open
\* created is left open: the client is closed and the Source holds no open
\* consumer.
C19_FailedOpenLeavesNothingOpen ==
    openErr \notin {"none", "nil"} =>
        /\ client # "open"
        /\ consumer # "open"

\* C12: Teardown releases the broker connection and the subscription
\* handle and is idempotent: once Teardown has run, the client that Open
\* opened is closed, no consumer is open, and the consumer has been closed
\* at most once however often Teardown is called.
C12_TeardownReleasesOnce ==
    teardowns >= 1 =>
        /\ client # "open"
        /\ consumer # "open"
        /\ closeCalls <= 1

\* C16: for every subscription name n, the empty one and UUID-like ones
\* included, parsePosition(Position{n}.ToSDKPosition()) returns Position{n}
\* and no error.
C16_PositionRoundTrip ==
    rt.phase = "decoded" =>
        /\ rt.parsed.err = "nil"
        /\ rt.parsed.p = Position(rt.name)

\* C16 witness: a name made of the three characters json.Marshal escapes
\* has gone through the round trip.
C16_Witness ==
    /\ rt.phase = "decoded"
    /\ rt.name = <<"\"", "\\", "<">>
    /\ Len(rt.bytes) > Len(JSONPrefix) + Len(rt.name) + Len(JSONSuffix)

\* ------------------------------------------------ properties, bulk variant

\* The identifiers of the messages of s.received, in slice order.
ReceivedIDs == [i \in 1..Len(received) |-> received[i].ID]

\* The identifiers a returned bulk Ack call handed to consumer.Ack, in order.
AttemptIDs(call) == [i \in 1..Len(call.attempts) |-> call.attempts[i].id]

\* The identifiers whose consumer.Ack failed during a bulk Ack call, in order.
FailedIDs(call) ==
    LET failed == SelectSeq(call.attempts, LAMBDA t : ~t.ok)
    IN  [i \in 1..Len(failed) |-> failed[i].id]

\* C17: subscription-mode dispatch is a closed mapping.  A Configure whose
\* cfg has a subscriptionType succeeds only for "exclusive", "shared",
\* "failover" and "key_shared"; the Subscribe call that follows uses the
\* broker type of the configured value, and pulsar.Exclusive when the cfg
\* has no subscriptionType.
C17_SubscriptionTypeDispatch ==
    lastReturn.op = "Configure" =>
        LET cfg == lastReturn.val.cfg
            given == "subscriptionType" \in DOMAIN cfg
        IN  /\ (given /\ cfg.subscriptionType \notin
                    {"exclusive", "shared", "failover", "key_shared"}) =>
                   /\ lastReturn.val.err # "nil"
                   /\ state \notin {"configured", "open"}
                   /\ subscribeCalls = <<>>
            /\ subscribeCalls # <<>> =>
                   /\ Len(subscribeCalls) = 1
                   /\ ~given => subscribeCalls[1].Type = "pulsar.Exclusive"
                   /\ given =>
                          <<cfg.subscriptionType, subscribeCalls[1].Type>> \in
                              {<<"exclusive", "pulsar.Exclusive">>,
                               <<"shared", "pulsar.Shared">>,
                               <<"failover", "pulsar.Failover">>,
                               <<"key_shared", "pulsar.KeyShared">>}

\* C17's case: configured with "failover", the connector has subscribed with
\* pulsar.Failover and is open.
C17_Witness ==
    /\ lastReturn.op = "Configure"
    /\ "subscriptionType" \in DOMAIN lastReturn.val.cfg
    /\ lastReturn.val.cfg.subscriptionType = "failover"
    /\ state = "open"
    /\ subscribeCalls # <<>>
    /\ subscribeCalls[1].Type = "pulsar.Failover"

\* C13: a bulk Ack call that returns has handed every message of s.received
\* to consumer.Ack, in order, going on after a failure; its error is nil
\* exactly when every attempt succeeded, and otherwise joins one error per
\* failed attempt.
C13_BulkAckAttemptsAll ==
    [][\A a \in Ackers :
          (apc[a] = "loop" /\ apc'[a] = "idle") =>
              LET call == lastReturn'.val
              IN  /\ lastReturn'.op = "Ack"
                  /\ AttemptIDs(call) = ReceivedIDs
                  /\ (call.res = "nil") <=>
                         (\A i \in 1..Len(call.attempts) : call.attempts[i].ok)
                  /\ call.err = FailedIDs(call)
                  /\ mx' = "free"]_vars

\* C13's case: an Ack call has returned whose first acknowledgment failed
\* and whose second one was still attempted, and succeeded; the error names
\* the first message only.
C13_Witness ==
    /\ lastReturn.op = "Ack"
    /\ Len(lastReturn.val.attempts) = 2
    /\ ~lastReturn.val.attempts[1].ok
    /\ lastReturn.val.attempts[2].ok
    /\ lastReturn.val.res = "joined"
    /\ Len(lastReturn.val.err) = 1

\* C14: when a bulk Ack call returns, consumer.Ack has been called for every
\* message received so far, those of records the pipeline has not
\* acknowledged included: the position the call was given selects nothing.
C14_BulkAckIgnoresPosition ==
    [][\A a \in Ackers :
          (apc[a] = "loop" /\ apc'[a] = "idle") =>
              \A i \in 1..Len(received) : brokerAcks'[received[i].ID] >= 1]_vars

\* C14's case: a message is acknowledged to the broker, by a returned Ack
\* call made for another record, while the pipeline has not acknowledged
\* the record of that message.
C14_Witness ==
    /\ lastReturn.op = "Ack"
    /\ \E i \in 1..Len(lastReturn.val.attempts) :
          LET t == lastReturn.val.attempts[i]
          IN  /\ t.ok
              /\ t.id # lastReturn.val.record
              /\ t.id \in returned \ pipelineAcked
              /\ brokerAcks[t.id] >= 1

\* C18: after a bulk Ack call returns, s.received no longer holds the
\* messages the call acknowledged successfully, so that no later Ack
\* acknowledges them again.
C18_BulkAckedLeaveReceived ==
    lastReturn.op = "Ack" =>
        \A i \in 1..Len(lastReturn.val.attempts) :
            lastReturn.val.attempts[i].ok =>
                \A j \in 1..Len(received) :
                    received[j].ID # lastReturn.val.attempts[i].id

\* C15: every record a successful Read returns is a "create" record whose
\* position decodes to the current subscription name, whose metadata holds
\* the topic and the event time of the message, and whose key and payload
\* are the message's.
C15_RecordCarriesMessage ==
    lastRead.kind = "record" =>
        LET rec == lastRead.record
            msg == Message(lastRead.id)
        IN  /\ rec.Operation = "create"
            /\ rec.Payload = msg.Payload
            /\ rec.Key = msg.Key
            /\ parsePosition(rec.Position).err = "nil"
            /\ parsePosition(rec.Position).p.SubscriptionName = config.SubscriptionName
            /\ DOMAIN rec.Metadata = {"topic", "createdAt"}
            /\ rec.Metadata.topic = msg.Topic
            /\ rec.Metadata.createdAt = msg.EventTime

\* ------------------------------------------------------ properties, mutex

\* The mutex is free, or held by a call that is between its Lock and its
\* Unlock.
MutexHeldByRunningCall ==
    \/ mx = "free"
    \/ mx \in Readers /\ rpc[mx] = "insert"
    \/ mx \in Ackers /\ apc[mx] \in {"lookup", "acking", "loop"}

\* C20: Read and Ack calls never deadlock on the mutex.  With the calls in
\* progress scheduled fairly and consumer.Ack returning, a Read that has
\* received a message records it and returns, an Ack call that has started
\* returns, and the mutex is held only by a call in progress between its
\* Lock and its Unlock, so that it is free whenever no call is in progress.
C20_NoDeadlockOnMutex ==
    /\ [](MutexHeldByRunningCall /\ (AllIdle => mx = "free"))
    /\ \A r \in Readers : \A id \in MsgIds :
          (rpc[r] = "lock" /\ rmsg[r] = id) ~> (id \in returned /\ rpc[r] = "idle")
    /\ \A a \in Ackers : (apc[a] # "idle") ~> (apc[a] = "idle")

\* C20's case: a Read that has received a message waits for the mutex
\* while an Ack call holds it across consumer.Ack, and another Ack call
\* waits for it as well.
C20_Witness ==
    \E r \in Readers : \E a, b \in Ackers :
        /\ rpc[r] = "lock"
        /\ mx = a
        /\ apc[a] = "acking"
        /\ apc[b] = "lock"

\* C20, bulk variant: the same under LiveSpecBulk.
C20_BulkNoDeadlockOnMutex ==
    /\ [](MutexHeldByRunningCall /\ (AllIdle => mx = "free"))
    /\ \A r \in Readers : (rpc[r] \in {"lock", "insert"}) ~> (rpc[r] = "idle")
    /\ \A a \in Ackers : (apc[a] # "idle") ~> (apc[a] = "idle")

====
